---- MODULE Spec2Model ----
(***************************************************************************)
(* A model of the expense-sharing service: the split calculator            *)
(* (services/splitService.js), the balance ledger and the debt simplifier  *)
(* (services/balanceService.js), the in-memory store (data/store.js) and   *)
(* the request handlers that drive them (routes/groupRoutes.js,            *)
(* routes/userRoutes.js, index.js).                                        *)
(*                                                                         *)
(* Money amounts and percentages are integers.  A JavaScript Map is a      *)
(* sequence of entries in insertion order; a JavaScript exception is a     *)
(* result record with ok = FALSE carrying the error's message and          *)
(* statusCode (0 when the thrown Error has none).                          *)
(***************************************************************************)
EXTENDS Integers, Sequences, FiniteSets, TLC

\* ------------------------------------------------------------------ bounds

\* Largest total amount of an expense.
MaxTotal == 4

\* Longest participant list handed to the split calculator directly.
MaxLen == 3

\* User identifiers of the participant lists handed to the split calculator
\* directly (the calculator never interprets them).
SplitUserIds == {"u1", "u2"}

\* Exact amounts a caller may send: one negative value, zero, and every
\* amount up to the largest total.
ExactAmounts == (-1)..MaxTotal

\* Percentages a caller may send: in-range values that do and do not add up
\* to 100, rounding-prone ones, and values outside [0, 100].
PercentValues == {-10, 0, 30, 33, 34, 50, 100, 110}

\* Split types a caller may send; "INVALID" is the one the tests send.
SplitTypes == {"EQUAL", "EXACT", "PERCENT"}

\* ------------------------------------------------------- JavaScript helpers

\* Math.abs
MathAbs(x) == IF x < 0 THEN -x ELSE x

\* Math.min
MathMin(a, b) == IF a <= b THEN a ELSE b

\* Math.floor(a / b) for b > 0
MathFloorDiv(a, b) == a \div b

\* JavaScript's a % b for b > 0: the remainder takes the dividend's sign.
JsRem(a, b) == IF a >= 0 THEN a % b ELSE -((-a) % b)

\* Math.round(n / d) for d > 0: the nearest integer, a tie going up.
MathRound(n, d) == (2 * n + d) \div (2 * d)

\* All sequences over S of length 0..n.
SeqUpTo(S, n) == UNION {[1..k -> S] : k \in 0..n}

\* `throw error` with error.message and error.statusCode (0: not set).
Throw(msg, code) ==
  [ok |-> FALSE, splits |-> <<>>, message |-> msg, statusCode |-> code]

\* `return splits`
Return(s) ==
  [ok |-> TRUE, splits |-> s, message |-> "", statusCode |-> 0]

\* ---------------------------------------------------------- split calculator

\* equalAmount with the remainder handed to one participant too many.
equalAmount_OneTooMany(baseAmount, remainder, index) ==
  baseAmount + (IF index <= remainder THEN 1 ELSE 0)

\* The amount equalSplit gives the participant at 0-based `index`.
equalAmount(baseAmount, remainder, index) ==
  baseAmount + (IF index < remainder THEN 1 ELSE 0)

equalSplit(totalAmount, participants) ==
  IF Len(participants) = 0
    THEN Throw("Participants list cannot be empty", 400)
    ELSE LET numParticipants == Len(participants)
             baseAmount == MathFloorDiv(totalAmount, numParticipants)
             remainder == JsRem(totalAmount, numParticipants)
         IN  Return([i \in 1..numParticipants |->
                       [userId |-> participants[i],
                        amount |-> equalAmount(baseAmount, remainder, i - 1)]])

\* shares.reduce((acc, share) => acc + share.amount, 0)
RECURSIVE SumAmount(_)
SumAmount(shares) ==
  IF shares = <<>> THEN 0
  ELSE SumAmount(SubSeq(shares, 1, Len(shares) - 1)) + shares[Len(shares)].amount

\* shares.reduce((acc, share) => acc + share.percent, 0)
RECURSIVE SumPercent(_)
SumPercent(shares) ==
  IF shares = <<>> THEN 0
  ELSE SumPercent(SubSeq(shares, 1, Len(shares) - 1)) + shares[Len(shares)].percent

\* The exactSplit check `sum !== totalAmount`.
exactSumMismatch(sum, totalAmount) == sum # totalAmount

\* exactAmountInvalid rejecting a share of zero as well.
exactAmountInvalid_Zero(amount) == amount <= 0

\* The exactSplit check `share.amount < 0`.
exactAmountInvalid(amount) == amount < 0

exactSplit(totalAmount, shares) ==
  IF Len(shares) = 0
    THEN Throw("Shares list cannot be empty", 400)
  ELSE IF exactSumMismatch(SumAmount(shares), totalAmount)
    THEN Throw("Sum of shares (" \o ToString(SumAmount(shares))
                 \o ") must equal total amount (" \o ToString(totalAmount)
                 \o ")", 400)
  ELSE IF \E i \in 1..Len(shares) : exactAmountInvalid(shares[i].amount)
    THEN Throw("Share amounts must be non-negative", 400)
  ELSE Return([i \in 1..Len(shares) |->
                 [userId |-> shares[i].userId, amount |-> shares[i].amount]])

\* percentSumInvalid without Math.abs: only a sum above 100 is refused.
percentSumInvalid_NoAbs(sumPercent) == (sumPercent - 100) * 100 > 1

\* The percentageSplit check `Math.abs(sumPercent - 100) > 0.01`, on integer
\* percentages (both sides multiplied by 100).
percentSumInvalid(sumPercent) == MathAbs(sumPercent - 100) * 100 > 1

\* The percentageSplit check `share.percent < 0 || share.percent > 100`.
percentOutOfRange(percent) == percent < 0 \/ percent > 100

\* percentAmount with Math.floor in place of Math.round.
percentAmount_Floor(totalAmount, percent) == (totalAmount * percent) \div 100

\* Math.round((totalAmount * share.percent) / 100)
percentAmount(totalAmount, percent) == MathRound(totalAmount * percent, 100)

\* The amount of the last participant of a PERCENT split.
percentLastAmount(totalAmount, allocatedAmount) == totalAmount - allocatedAmount

\* shares.map((share, index) => ...) of percentageSplit from 1-based position
\* `i` on, with `allocatedAmount` what the entries before it were given.
RECURSIVE percentMap(_, _, _, _)
percentMap(totalAmount, shares, i, allocatedAmount) ==
  IF i > Len(shares) THEN <<>>
  ELSE IF i = Len(shares)
    THEN << [userId |-> shares[i].userId,
             amount |-> percentLastAmount(totalAmount, allocatedAmount)] >>
  ELSE LET amount == percentAmount(totalAmount, shares[i].percent)
       IN  << [userId |-> shares[i].userId, amount |-> amount] >>
             \o percentMap(totalAmount, shares, i + 1, allocatedAmount + amount)

percentageSplit(totalAmount, shares) ==
  IF Len(shares) = 0
    THEN Throw("Shares list cannot be empty", 400)
  ELSE IF percentSumInvalid(SumPercent(shares))
    THEN Throw("Sum of percentages (" \o ToString(SumPercent(shares))
                 \o ") must equal 100", 400)
  ELSE IF \E i \in 1..Len(shares) : percentOutOfRange(shares[i].percent)
    THEN Throw("Percentages must be between 0 and 100", 400)
  ELSE Return(percentMap(totalAmount, shares, 1, 0))

splitExpense(splitType, totalAmount, participants) ==
  CASE splitType = "EQUAL" -> equalSplit(totalAmount, participants)
    [] splitType = "EXACT" -> exactSplit(totalAmount, participants)
    [] splitType = "PERCENT" -> percentageSplit(totalAmount, participants)
    [] OTHER -> Throw("Unknown split type: " \o splitType, 0)

\* --------------------------------------------------------------- the store

\* Identifiers uuidv4() may hand out, in the order it hands them out (an
\* identifier is opaque and never reused while its owner is stored).
UserIds == <<"u1", "u2">>
GroupIds == <<"g1", "g2">>

\* The elements of a sequence.
Range(s) == {s[i] : i \in 1..Len(s)}

VARIABLES
  users,        \* store.users: the identifiers of the stored users
  groups,       \* store.groups: groupId -> [members: set of userId]
  expenses,     \* store.expenses: the stored expense records, oldest first
  balances,     \* store.balances: groupId -> Map(userId -> netAmount)
  req,          \* the request being answered
  res,          \* the response to it
  applied,      \* how many direct calls of applyExpense and of
                \* applySettlement have been made
  call,         \* the arguments of a direct call, and the local variables
                \* of one that runs step by step
  ret,          \* what that call returned or threw
  pc            \* "serve": the next request or call may start;
                \* "respond": a response is on its way to the client;
                \* "call" / "returned": a direct call is about to run / has run;
                \* "loop": simplifyBalances is at the head of its loop

store == <<users, groups, expenses, balances>>
vars == <<users, groups, expenses, balances, req, res, applied, call, ret, pc>>

NoRet == [ok |-> FALSE, splits |-> <<>>, message |-> "", statusCode |-> 0]

\* new Map()
EmptyMap == [k \in {} |-> <<>>]

\* outer.set(key, value) on a Map keyed by identifier
MapPut(outer, key, value) ==
  [k \in DOMAIN outer \cup {key} |-> IF k = key THEN value ELSE outer[k]]

\* balances.has(userId) on a group's Map, a sequence of entries
mapHas(m, userId) == \E i \in 1..Len(m) : m[i].userId = userId

\* balances.get(userId)
mapGet(m, userId) == m[CHOOSE i \in 1..Len(m) : m[i].userId = userId].amount

\* balances.set(userId, amount): an existing key keeps its place, a new one
\* goes last
mapSet(m, userId, amount) ==
  IF mapHas(m, userId)
    THEN [i \in 1..Len(m) |->
            IF m[i].userId = userId THEN [userId |-> userId, amount |-> amount]
            ELSE m[i]]
    ELSE Append(m, [userId |-> userId, amount |-> amount])

\* mapInit setting the balance to 0 whether the user has one or not.
mapInit_Reset(m, userId) == mapSet(m, userId, 0)

\* `if (!balances.has(userId)) balances.set(userId, 0)`
mapInit(m, userId) == IF mapHas(m, userId) THEN m ELSE mapSet(m, userId, 0)

\* store.getGroupBalances(groupId): store.balances after the call (the Map
\* it returns is that store's entry for groupId)
getGroupBalances(bal, groupId) ==
  IF groupId \in DOMAIN bal THEN bal ELSE MapPut(bal, groupId, <<>>)

\* ------------------------------------------------------------ balance ledger

\* creditPayer overwriting the payer's balance instead of adding to it.
creditPayer_Overwrite(m, paidBy, totalAmount) == mapSet(m, paidBy, totalAmount)

\* balances.set(paidBy, balances.get(paidBy) + totalAmount)
creditPayer(m, paidBy, totalAmount) ==
  mapSet(m, paidBy, mapGet(m, paidBy) + totalAmount)

\* debitParticipant adding the share instead of subtracting it.
debitParticipant_Add(m, userId, amount) ==
  mapSet(m, userId, mapGet(m, userId) + amount)

\* balances.set(userId, balances.get(userId) - amount)
debitParticipant(m, userId, amount) ==
  mapSet(m, userId, mapGet(m, userId) - amount)

\* debitSplits stopping after the first participant.
debitSplits_FirstOnly(m, splits, i) ==
  IF i > Len(splits) \/ i > 1 THEN m
  ELSE debitParticipant(mapInit(m, splits[i].userId), splits[i].userId,
                        splits[i].amount)

\* `for (const split of splits)` of applyExpense, from position i on
RECURSIVE debitSplits(_, _, _)
debitSplits(m, splits, i) ==
  IF i > Len(splits) THEN m
  ELSE debitSplits(
         debitParticipant(mapInit(m, splits[i].userId), splits[i].userId,
                          splits[i].amount),
         splits, i + 1)

\* store.balances after applyExpense(groupId, paidBy, totalAmount, splits)
applyExpense(bal, groupId, paidBy, totalAmount, splits) ==
  LET b == getGroupBalances(bal, groupId)
      credited == creditPayer(mapInit(b[groupId], paidBy), paidBy, totalAmount)
  IN  [b EXCEPT ![groupId] = debitSplits(credited, splits, 1)]

\* store.balances after applySettlement(groupId, fromUserId, toUserId, amount)
applySettlement(bal, groupId, fromUserId, toUserId, amount) ==
  LET b == getGroupBalances(bal, groupId)
      m0 == mapInit(mapInit(b[groupId], fromUserId), toUserId)
      m1 == mapSet(m0, fromUserId, mapGet(m0, fromUserId) + amount)
      m2 == mapSet(m1, toUserId, mapGet(m1, toUserId) - amount)
  IN  [b EXCEPT ![groupId] = m2]

\* getNetBalances(groupId): the object returned (its keys in the Map's
\* order) and store.balances after the call
getNetBalances(bal, groupId) ==
  LET b == getGroupBalances(bal, groupId)
  IN  [balances |-> b, result |-> b[groupId]]

\* ----------------------------------------------------------- debt simplifier

\* creditorsOf taking the users of balance 0 as well.
creditorsOf_NonNegative(m) == SelectSeq(m, LAMBDA e : e.amount >= 0)

\* The entries of a group's Map with a positive balance, in the Map's order.
creditorsOf(m) == SelectSeq(m, LAMBDA e : e.amount > 0)

\* The entries with a negative balance, each with Math.abs(balance).
debtorsOf(m) ==
  LET neg == SelectSeq(m, LAMBDA e : e.amount < 0)
  IN  [i \in 1..Len(neg) |->
         [userId |-> neg[i].userId, amount |-> MathAbs(neg[i].amount)]]

\* insertDesc putting e before the elements equal to it.
insertDesc_BeforeEqual(sorted, e) ==
  LET k == Cardinality({i \in 1..Len(sorted) : sorted[i].amount > e.amount})
  IN  SubSeq(sorted, 1, k) \o <<e>> \o SubSeq(sorted, k + 1, Len(sorted))

\* One insertion of the stable descending sort: e goes after every element
\* that is at least as large.
insertDesc(sorted, e) ==
  LET k == Cardinality({i \in 1..Len(sorted) : sorted[i].amount >= e.amount})
  IN  SubSeq(sorted, 1, k) \o <<e>> \o SubSeq(sorted, k + 1, Len(sorted))

\* sortDesc leaving the list in the Map's order.
sortDesc_Unsorted(list) == list

\* list.sort((a, b) => b.amount - a.amount): descending, and stable
RECURSIVE sortDesc(_)
sortDesc(list) ==
  IF list = <<>> THEN <<>>
  ELSE insertDesc(sortDesc(SubSeq(list, 1, Len(list) - 1)), list[Len(list)])

\* transactionAmount with Math.max in place of Math.min.
transactionAmount_Max(creditor, debtor) ==
  IF creditor.amount >= debtor.amount THEN creditor.amount ELSE debtor.amount

\* Math.min(creditor.amount, debtor.amount)
transactionAmount(creditor, debtor) == MathMin(creditor.amount, debtor.amount)

\* The loop settling one unit per transaction instead of the whole of the
\* smaller remaining amount.
pushTransaction_OnePerUnit(transactions, creditor, debtor, amount) ==
  transactions \o [i \in 1..amount |->
                     [from |-> debtor.userId, to |-> creditor.userId, amount |-> 1]]

\* transactions.push({from: debtor.userId, to: creditor.userId, amount})
pushTransaction(transactions, creditor, debtor, amount) ==
  Append(transactions,
         [from |-> debtor.userId, to |-> creditor.userId, amount |-> amount])

\* advance leaving the cursor where it is.
advance_Stay(idx, remaining) == idx

\* advance moving the cursor on whatever remains.
advance_Always(idx, remaining) == idx + 1

\* `if (x.amount === 0) idx++`
advance(idx, remaining) == IF remaining = 0 THEN idx + 1 ELSE idx

\* `creditorIdx < creditors.length && debtorIdx < debtors.length`, with
\* 0-based cursors as in the code
loopCondition(creditors, debtors, creditorIdx, debtorIdx) ==
  creditorIdx < Len(creditors) /\ debtorIdx < Len(debtors)

\* The local variables of simplifyBalances.
Locals(creditors, debtors, creditorIdx, debtorIdx, transactions) ==
  [creditors |-> creditors, debtors |-> debtors, creditorIdx |-> creditorIdx,
   debtorIdx |-> debtorIdx, transactions |-> transactions]

\* One iteration of the matching loop: the local variables after it.
matchStep(creditors, debtors, creditorIdx, debtorIdx, transactions) ==
  LET creditor == creditors[creditorIdx + 1]
      debtor == debtors[debtorIdx + 1]
      amount == transactionAmount(creditor, debtor)
      cs == [creditors EXCEPT ![creditorIdx + 1].amount = @ - amount]
      ds == [debtors EXCEPT ![debtorIdx + 1].amount = @ - amount]
  IN  Locals(cs, ds,
             advance(creditorIdx, cs[creditorIdx + 1].amount),
             advance(debtorIdx, ds[debtorIdx + 1].amount),
             pushTransaction(transactions, creditor, debtor, amount))

\* The matching loop: the transactions it leaves.
RECURSIVE matchLoop(_, _, _, _, _)
matchLoop(creditors, debtors, creditorIdx, debtorIdx, transactions) ==
  IF ~loopCondition(creditors, debtors, creditorIdx, debtorIdx)
    THEN transactions
  ELSE LET s == matchStep(creditors, debtors, creditorIdx, debtorIdx,
                          transactions)
       IN  matchLoop(s.creditors, s.debtors, s.creditorIdx, s.debtorIdx,
                     s.transactions)

\* The transactions simplifyBalances computes from a group's Map.
simplify(m) ==
  matchLoop(sortDesc(creditorsOf(m)), sortDesc(debtorsOf(m)), 0, 0, <<>>)

\* simplifyBalances(groupId): the transactions returned and store.balances
\* after the call
simplifyBalances(bal, groupId) ==
  LET b == getGroupBalances(bal, groupId)
  IN  [balances |-> b, result |-> simplify(b[groupId])]

\* ------------------------------------------------------------ request handlers

\* The error-handling middleware: err.statusCode || 500
errorStatus(err) == IF err.statusCode # 0 THEN err.statusCode ELSE 500

\* What a handler leaves behind: the response and the store's expenses and
\* balances.
Outcome(status, error, body, exp, bal) ==
  [status |-> status, error |-> error, body |-> body,
   expenses |-> exp, balances |-> bal]

\* A response that leaves the store as it is.
Reject(status, error) == Outcome(status, error, <<>>, expenses, balances)

\* `!totalAmount || typeof totalAmount !== 'number' || totalAmount <= 0`
totalAmountInvalid(totalAmount) == totalAmount = 0 \/ totalAmount <= 0

\* splitTypeInvalid with the handler's check of the split type left out.
splitTypeInvalid_Unchecked(splitType) == FALSE

\* `!splitType || !['EQUAL', 'EXACT', 'PERCENT'].includes(splitType)`
splitTypeInvalid(splitType) == splitType \notin SplitTypes

\* splitType === 'EQUAL' ? participants : participants.map(p => p.userId)
participantIds(splitType, participants) ==
  IF splitType = "EQUAL" THEN participants
  ELSE [i \in 1..Len(participants) |-> participants[i].userId]

\* nonMembers looking the participants up in store.users instead of the
\* group's members.
nonMembers_Users(groupId, body) ==
  SelectSeq(participantIds(body.splitType, body.participants),
            LAMBDA userId : userId \notin users)

\* The participants `group.members.has(userId)` fails for, in the order of
\* the loop.
nonMembers(groupId, body) ==
  SelectSeq(participantIds(body.splitType, body.participants),
            LAMBDA userId : userId \notin groups[groupId].members)

\* The stored expense record (its id, description, category, participants
\* and createdAt are not modelled).
expenseRecord(groupId, body, splits) ==
  [groupId |-> groupId, totalAmount |-> body.totalAmount, paidBy |-> body.paidBy,
   splitType |-> body.splitType, splits |-> splits]

\* storeExpense storing the expense record before splitExpense has
\* validated the request.
storeExpense_StoreFirst(groupId, body) ==
  LET r == splitExpense(body.splitType, body.totalAmount, body.participants)
      stored == Append(expenses, expenseRecord(groupId, body, r.splits))
  IN  IF ~r.ok THEN Outcome(errorStatus(r), r.message, <<>>, stored, balances)
      ELSE Outcome(201, "", r.splits, stored,
                   applyExpense(balances, groupId, body.paidBy, body.totalAmount,
                                r.splits))

\* The tail of the create-expense handler, from the call of splitExpense on.
storeExpense(groupId, body) ==
  LET r == splitExpense(body.splitType, body.totalAmount, body.participants)
  IN  IF ~r.ok THEN Reject(errorStatus(r), r.message)
      ELSE Outcome(201, "", r.splits,
                   Append(expenses, expenseRecord(groupId, body, r.splits)),
                   applyExpense(balances, groupId, body.paidBy, body.totalAmount,
                                r.splits))

\* POST /groups/:groupId/expenses
postExpense(groupId, body) ==
  IF groupId \notin DOMAIN groups
    THEN Reject(404, "Group not found")
  ELSE IF body.description = ""
    THEN Reject(400, "Description is required")
  ELSE IF body.category = ""
    THEN Reject(400, "Category is required")
  ELSE IF totalAmountInvalid(body.totalAmount)
    THEN Reject(400, "Total amount must be a positive number")
  ELSE IF body.paidBy \notin users
    THEN Reject(400, "Valid paidBy user ID is required")
  ELSE IF body.paidBy \notin groups[groupId].members
    THEN Reject(400, "Payer must be a member of the group")
  ELSE IF splitTypeInvalid(body.splitType)
    THEN Reject(400, "Split type must be EQUAL, EXACT, or PERCENT")
  ELSE IF Len(body.participants) = 0
    THEN Reject(400, "Participants list is required")
  ELSE IF nonMembers(groupId, body) # <<>>
    THEN Reject(400, "User " \o nonMembers(groupId, body)[1]
                       \o " is not a member of this group")
  ELSE storeExpense(groupId, body)

\* GET /groups/:groupId/balances/raw
getRawBalances(groupId) ==
  IF groupId \notin DOMAIN groups THEN Reject(404, "Group not found")
  ELSE LET r == getNetBalances(balances, groupId)
       IN  Outcome(200, "", r.result, expenses, r.balances)

\* GET /groups/:groupId/balances/simplified
getSimplifiedBalances(groupId) ==
  IF groupId \notin DOMAIN groups THEN Reject(404, "Group not found")
  ELSE LET r == simplifyBalances(balances, groupId)
       IN  Outcome(200, "", r.result, expenses, r.balances)

\* GET /users: Array.from(store.users.values()), the users in the order they
\* were stored
getUsers ==
  Outcome(200, "", SelectSeq(UserIds, LAMBDA userId : userId \in users),
          expenses, balances)

\* POST /users: validate.required and validate.string reject a missing or
\* empty name
userNameInvalid(name) == name = ""

\* uuidv4(): an identifier no stored object carries
freshId(ids, taken) ==
  ids[CHOOSE i \in 1..Len(ids) :
        ids[i] \notin taken /\ \A j \in 1..(i - 1) : ids[j] \in taken]

\* ---------------------------------------------------------------- requests

\* Most expenses stored.
MaxExpenses == 2

\* Largest total amount of a create-expense request.
MaxAmount == 2

\* Longest participant list of a create-expense request.
MaxParticipants == 2

\* The exact amounts and the percentages create-expense requests carry, one
\* vector per participant list: matching and mismatching sums, a negative
\* amount, an out-of-range percentage, rounding-prone percentages.
ExactVectors ==
  {<<1>>, <<2>>, <<0, 1>>, <<1, 1>>, <<2, -1>>, <<1, 2>>, <<1, 0, 1>>, <<1, 1, 1>>}
PercentVectors ==
  {<<100>>, <<50>>, <<50, 50>>, <<30, 70>>, <<50, 30>>, <<150, -50>>,
   <<50, 50, 0>>, <<33, 33, 34>>}

\* The participant lists of length 0..MaxParticipants over the identifiers.
UserLists == SeqUpTo(Range(UserIds), MaxParticipants)

RECURSIVE RequestLists(_)
RequestLists(splitType) ==
  CASE splitType = "EXACT" ->
         {[i \in 1..Len(us) |-> [userId |-> us[i], amount |-> v[i]]] :
            <<us, v>> \in {p \in UserLists \X ExactVectors : Len(p[1]) = Len(p[2])}}
           \cup {<<>>}
    [] splitType = "PERCENT" ->
         {[i \in 1..Len(us) |-> [userId |-> us[i], percent |-> v[i]]] :
            <<us, v>> \in {p \in UserLists \X PercentVectors : Len(p[1]) = Len(p[2])}}
           \cup {<<>>}
    [] splitType = "EQUAL" -> UserLists
    [] OTHER -> RequestLists("EXACT")

\* The bodies of create-expense requests: every combination of total, payer,
\* split type and participant list, and bodies without description, without
\* category or with a total of 0.
ExpenseBodies ==
  UNION {[description : {"Dinner"}, category : {"food"},
          totalAmount : 1..MaxAmount, paidBy : Range(UserIds),
          splitType : {t}, participants : RequestLists(t)]
           : t \in SplitTypes \cup {"INVALID"}}
    \cup [description : {"", "Dinner"}, category : {"", "food"},
          totalAmount : {0, 1}, paidBy : {UserIds[1]},
          splitType : {"EQUAL"}, participants : {<<UserIds[1]>>}]

NoBody == [description |-> "", category |-> "", totalAmount |-> 0, paidBy |-> "",
           splitType |-> "", participants |-> <<>>]

Request(op, groupId, body) == [op |-> op, groupId |-> groupId, body |-> body]

Response(out) == [status |-> out.status, error |-> out.error, body |-> out.body]

NoRequest == Request("none", "", NoBody)
NoResponse == [status |-> 0, error |-> "", body |-> <<>>]
NoCall == [op |-> "none"]

\* ------------------------------------------------------------------ actions

\* The store as constructed (data/store.js).
StoreInit ==
  /\ users = {}
  /\ groups = EmptyMap
  /\ expenses = <<>>
  /\ balances = EmptyMap

Init ==
  /\ StoreInit
  /\ req = NoRequest
  /\ res = NoResponse
  /\ applied = [expenses |-> 0, settlements |-> 0]
  /\ call = NoCall
  /\ ret = NoRet
  /\ pc = "serve"

\* POST /users
PostUser ==
  /\ pc = "serve"
  /\ \E name \in {"", "Alice"} :
       /\ req' = Request("postUser", "", [NoBody EXCEPT !.description = name])
       /\ IF userNameInvalid(name)
            THEN /\ res' = Response(Reject(400, "Name is required"))
                 /\ UNCHANGED users
            ELSE /\ Range(UserIds) \ users # {}
                 /\ users' = users \cup {freshId(UserIds, users)}
                 /\ res' = Response(Reject(201, ""))
  /\ pc' = "respond"
  /\ UNCHANGED <<groups, expenses, balances, applied, call, ret>>

\* POST /groups
PostGroup ==
  /\ pc = "serve"
  /\ \E createdBy \in Range(UserIds) :
       /\ req' = Request("postGroup", "", [NoBody EXCEPT !.paidBy = createdBy])
       /\ IF createdBy \notin users
            THEN /\ res' = Response(Reject(400, "Valid createdBy user ID is required"))
                 /\ UNCHANGED groups
            ELSE /\ Range(GroupIds) \ DOMAIN groups # {}
                 /\ groups' = MapPut(groups, freshId(GroupIds, DOMAIN groups),
                                     [members |-> {createdBy}])
                 /\ res' = Response(Reject(201, ""))
  /\ pc' = "respond"
  /\ UNCHANGED <<users, expenses, balances, applied, call, ret>>

\* POST /groups/:groupId/members
PostMember ==
  /\ pc = "serve"
  /\ \E groupId \in Range(GroupIds), userId \in Range(UserIds) :
       /\ req' = Request("postMember", groupId, [NoBody EXCEPT !.paidBy = userId])
       /\ IF groupId \notin DOMAIN groups
            THEN /\ res' = Response(Reject(404, "Group not found"))
                 /\ UNCHANGED groups
          ELSE IF userId \notin users
            THEN /\ res' = Response(Reject(400, "Valid user ID is required"))
                 /\ UNCHANGED groups
          ELSE IF userId \in groups[groupId].members
            THEN /\ res' = Response(Reject(400, "User is already a member of this group"))
                 /\ UNCHANGED groups
          ELSE /\ groups' = [groups EXCEPT ![groupId].members = @ \cup {userId}]
               /\ res' = Response(Reject(200, ""))
  /\ pc' = "respond"
  /\ UNCHANGED <<users, expenses, balances, applied, call, ret>>

\* POST /groups/:groupId/expenses
PostExpense ==
  /\ pc = "serve"
  /\ Len(expenses) < MaxExpenses
  /\ \E groupId \in Range(GroupIds), body \in ExpenseBodies :
       LET out == postExpense(groupId, body)
       IN  /\ req' = Request("postExpense", groupId, body)
           /\ expenses' = out.expenses
           /\ balances' = out.balances
           /\ res' = Response(out)
  /\ pc' = "respond"
  /\ UNCHANGED <<users, groups, applied, call, ret>>

\* GET /groups/:groupId/balances/raw
GetRawBalances ==
  /\ pc = "serve"
  /\ \E groupId \in Range(GroupIds) :
       LET out == getRawBalances(groupId)
       IN  /\ req' = Request("getRawBalances", groupId, NoBody)
           /\ balances' = out.balances
           /\ res' = Response(out)
  /\ pc' = "respond"
  /\ UNCHANGED <<users, groups, expenses, applied, call, ret>>

\* GET /groups/:groupId/balances/simplified
GetSimplifiedBalances ==
  /\ pc = "serve"
  /\ \E groupId \in Range(GroupIds) :
       LET out == getSimplifiedBalances(groupId)
       IN  /\ req' = Request("getSimplifiedBalances", groupId, NoBody)
           /\ balances' = out.balances
           /\ res' = Response(out)
  /\ pc' = "respond"
  /\ UNCHANGED <<users, groups, expenses, applied, call, ret>>

\* GET /users
GetUsers ==
  /\ pc = "serve"
  /\ req' = Request("getUsers", "", NoBody)
  /\ res' = Response(getUsers)
  /\ pc' = "respond"
  /\ UNCHANGED <<users, groups, expenses, balances, applied, call, ret>>

\* reset leaving store.balances as it is.
reset_KeepBalances ==
  /\ users' = {}
  /\ groups' = EmptyMap
  /\ expenses' = <<>>
  /\ UNCHANGED balances

\* store.reset()
reset ==
  /\ users' = {}
  /\ groups' = EmptyMap
  /\ expenses' = <<>>
  /\ balances' = EmptyMap

\* DELETE /reset
DeleteReset ==
  /\ pc = "serve"
  /\ reset
  /\ req' = Request("deleteReset", "", NoBody)
  /\ res' = [status |-> 200, error |-> "", body |-> <<>>]
  /\ pc' = "respond"
  /\ UNCHANGED <<applied, call, ret>>

\* The response reaches the client; the next request may be served.
Respond ==
  /\ pc = "respond"
  /\ req' = NoRequest
  /\ res' = NoResponse
  /\ pc' = "serve"
  /\ UNCHANGED <<users, groups, expenses, balances, applied, call, ret>>

Next ==
  \/ PostUser
  \/ PostGroup
  \/ PostMember
  \/ PostExpense
  \/ GetRawBalances
  \/ GetSimplifiedBalances
  \/ GetUsers
  \/ DeleteReset
  \/ Respond

Spec == Init /\ [][Next]_vars

\* ------------------------------------------- the split calculator, called

\* The participant lists of each shape, and the direct calls drawn from them.
EqualLists == SeqUpTo(SplitUserIds, MaxLen)
ExactLists == SeqUpTo([userId : SplitUserIds, amount : ExactAmounts], MaxLen)
PercentLists == SeqUpTo([userId : SplitUserIds, percent : PercentValues], MaxLen)

SplitCalls ==
  [splitType : {"EQUAL", "INVALID"}, totalAmount : 1..MaxTotal, participants : EqualLists]
    \cup [splitType : {"EXACT"}, totalAmount : 1..MaxTotal, participants : ExactLists]
    \cup [splitType : {"PERCENT"}, totalAmount : 1..MaxTotal, participants : PercentLists]

SplitInit ==
  /\ StoreInit
  /\ req = NoRequest
  /\ res = NoResponse
  /\ applied = [expenses |-> 0, settlements |-> 0]
  /\ call \in SplitCalls
  /\ ret = NoRet
  /\ pc = "call"

SplitCall ==
  /\ pc = "call"
  /\ ret' = splitExpense(call.splitType, call.totalAmount, call.participants)
  /\ pc' = "returned"
  /\ UNCHANGED <<users, groups, expenses, balances, req, res, applied, call>>

SplitNext == SplitCall

SplitSpec == SplitInit /\ [][SplitNext]_vars

\* The service and its split calculator together: the process serves
\* requests, or the split calculator is called directly.
ApiInit == Init \/ SplitInit

ApiNext == Next \/ SplitNext

ApiSpec == ApiInit /\ [][ApiNext]_vars

\* --------------------------------------------- the balance ledger, called

\* The users and groups direct calls of the balance service name (it checks
\* neither).
LedgerUserIds == {"u1", "u2", "u3"}
LedgerGroupIds == {"g1", "g2"}

\* Most direct calls of applyExpense and of applySettlement.
MaxApplied == 2
MaxSettlements == 1

\* Largest amount of a direct applySettlement call (the ledger does not
\* validate it: zero and a negative amount are applied as well).
MaxSettle == 2

\* What a create-expense request hands to splitExpense.
LedgerSplitCalls ==
  UNION {[splitType : {t}, totalAmount : 1..MaxAmount, participants : RequestLists(t)]
           : t \in SplitTypes}

NoApplied == [expenses |-> 0, settlements |-> 0]

LedgerInit ==
  /\ StoreInit
  /\ req = NoRequest
  /\ res = NoResponse
  /\ applied = NoApplied
  /\ call = NoCall
  /\ ret = NoRet
  /\ pc = "serve"

\* splitExpense followed by applyExpense, as the create-expense handler
\* calls them
CallApplyExpense ==
  /\ applied.expenses < MaxApplied
  /\ \E groupId \in LedgerGroupIds, paidBy \in LedgerUserIds, c \in LedgerSplitCalls :
       LET r == splitExpense(c.splitType, c.totalAmount, c.participants)
       IN  /\ r.ok
           /\ balances' = applyExpense(balances, groupId, paidBy, c.totalAmount, r.splits)
           /\ call' = [op |-> "applyExpense", splitType |-> c.splitType]
  /\ applied' = [applied EXCEPT !.expenses = @ + 1]
  /\ UNCHANGED <<users, groups, expenses, req, res, ret, pc>>

\* applySettlement(groupId, fromUserId, toUserId, amount)
CallApplySettlement ==
  /\ applied.settlements < MaxSettlements
  /\ \E groupId \in LedgerGroupIds, fromUserId \in LedgerUserIds,
        toUserId \in LedgerUserIds, amount \in (-1)..MaxSettle :
       balances' = applySettlement(balances, groupId, fromUserId, toUserId, amount)
  /\ call' = [op |-> "applySettlement", splitType |-> ""]
  /\ applied' = [applied EXCEPT !.settlements = @ + 1]
  /\ UNCHANGED <<users, groups, expenses, req, res, ret, pc>>

LedgerNext == CallApplyExpense \/ CallApplySettlement

LedgerSpec == LedgerInit /\ [][LedgerNext]_vars

\* ------------------------------------------------ the simplifier, called

\* The users of the ledgers handed to the simplifier, and the largest
\* absolute balance in them.
SimplifyUserIds == {"u1", "u2", "u3", "u4"}
MaxBalance == 3

\* The Map(userId -> netAmount) holding users `us`, in that insertion order,
\* with balances `bs`.
Ledger(us, bs) == [i \in 1..Len(us) |-> [userId |-> us[i], amount |-> bs[i]]]

\* The balances of the spec's scenario: {A: +3000, B: -200, C: -2800}.
ScenarioLedger == Ledger(<<"A", "B", "C">>, <<3000, -200, -2800>>)

\* The store either has no Map for the group yet or any Map within the
\* bounds: the users in any insertion order, each with any balance (direct
\* calls of applyExpense and applySettlement reach them all); or the Map of
\* the scenario.
SimplifyInit ==
  /\ users = {}
  /\ groups = EmptyMap
  /\ expenses = <<>>
  /\ \/ balances = EmptyMap
     \/ balances = MapPut(EmptyMap, "g1", ScenarioLedger)
     \/ \E k \in 0..Cardinality(SimplifyUserIds) :
          \E us \in [1..k -> SimplifyUserIds] :
            /\ \A i, j \in 1..k : i # j => us[i] # us[j]
            /\ \E bs \in [1..k -> (-MaxBalance)..MaxBalance] :
                 balances = MapPut(EmptyMap, "g1", Ledger(us, bs))
  /\ req = NoRequest
  /\ res = NoResponse
  /\ applied = NoApplied
  /\ call = [op |-> "simplifyBalances", groupId |-> "g1"]
  /\ ret = <<>>
  /\ pc = "call"

\* simplifyBalances(groupId), up to its loop: the Map is fetched, creditors
\* and debtors are separated and sorted, the cursors start at 0.
SimplifyCall ==
  /\ pc = "call"
  /\ LET b == getGroupBalances(balances, call.groupId)
         l == Locals(sortDesc(creditorsOf(b[call.groupId])),
                     sortDesc(debtorsOf(b[call.groupId])), 0, 0, <<>>)
     IN  /\ balances' = b
         /\ call' = [op |-> call.op, groupId |-> call.groupId,
                     creditors |-> l.creditors, debtors |-> l.debtors,
                     creditorIdx |-> l.creditorIdx, debtorIdx |-> l.debtorIdx,
                     transactions |-> l.transactions]
  /\ pc' = "loop"
  /\ UNCHANGED <<users, groups, expenses, req, res, applied, ret>>

\* One iteration of the loop.
SimplifyIterate ==
  /\ pc = "loop"
  /\ loopCondition(call.creditors, call.debtors, call.creditorIdx, call.debtorIdx)
  /\ LET l == matchStep(call.creditors, call.debtors, call.creditorIdx,
                        call.debtorIdx, call.transactions)
     IN  call' = [call EXCEPT !.creditors = l.creditors, !.debtors = l.debtors,
                              !.creditorIdx = l.creditorIdx,
                              !.debtorIdx = l.debtorIdx,
                              !.transactions = l.transactions]
  /\ UNCHANGED <<users, groups, expenses, balances, req, res, applied, ret, pc>>

\* The loop is left: `return transactions`.
SimplifyReturn ==
  /\ pc = "loop"
  /\ ~loopCondition(call.creditors, call.debtors, call.creditorIdx, call.debtorIdx)
  /\ ret' = call.transactions
  /\ pc' = "returned"
  /\ UNCHANGED <<users, groups, expenses, balances, req, res, applied, call>>

SimplifyNext == SimplifyCall \/ SimplifyIterate \/ SimplifyReturn

SimplifySpec == SimplifyInit /\ [][SimplifyNext]_vars

\* ------------------------------------------------------------- properties

\* The sum of the amounts of a list of split entries.
RECURSIVE AmountsTotal(_)
AmountsTotal(splits) ==
  IF splits = <<>> THEN 0 ELSE splits[1].amount + AmountsTotal(Tail(splits))

\* The sum of the percentages of a PERCENT participant list.
RECURSIVE PercentsTotal(_)
PercentsTotal(shares) ==
  IF shares = <<>> THEN 0 ELSE shares[1].percent + PercentsTotal(Tail(shares))

\* A direct call of splitExpense with the given split type has returned.
Returned(splitType) == pc = "returned" /\ call.splitType = splitType

\* `amount` is totalAmount * percent / 100 rounded to the nearest integer, a
\* tie rounded up.
IsRounded(amount, totalAmount, percent) ==
  /\ 100 * amount - 50 <= totalAmount * percent
  /\ totalAmount * percent < 100 * amount + 50

\* C4: equalSplit, for a positive integer total and a non-empty list of n
\* participants, returns one entry per participant in input order, entry i
\* (0-based) with floor(total/n)+1 if i < total mod n and floor(total/n)
\* otherwise; the amounts sum to the total and differ by at most 1.  An empty
\* list is rejected.
C4_EqualSplit ==
  Returned("EQUAL") =>
    LET n == Len(call.participants)
        total == call.totalAmount
    IN  IF n = 0
          THEN ~ret.ok /\ ret.splits = <<>>
          ELSE /\ ret.ok
               /\ Len(ret.splits) = n
               /\ \A i \in 1..n :
                    /\ ret.splits[i].userId = call.participants[i]
                    /\ ret.splits[i].amount =
                         (total \div n) + (IF i - 1 < total % n THEN 1 ELSE 0)
               /\ AmountsTotal(ret.splits) = total
               /\ \A i, j \in 1..n : ret.splits[i].amount - ret.splits[j].amount <= 1

\* C4's case: a total that does not divide evenly among three participants.
C4_Witness ==
  /\ Returned("EQUAL")
  /\ ret.ok
  /\ Len(call.participants) = 3
  /\ call.totalAmount % 3 = 1
  /\ ret.splits[1].amount = ret.splits[3].amount + 1

\* A PERCENT participant list percentageSplit accepts: not empty, the
\* percentages summing to 100, each within [0, 100].
AcceptedPercents(shares) ==
  /\ Len(shares) > 0
  /\ PercentsTotal(shares) = 100
  /\ \A i \in 1..Len(shares) : shares[i].percent >= 0 /\ shares[i].percent <= 100

\* C5: for a positive integer total and an accepted percent list, every
\* participant but the last receives round(total * percent / 100), the last
\* receives the total minus what the others received, and the amounts sum to
\* the total.
C5_PercentSplit ==
  (Returned("PERCENT") /\ AcceptedPercents(call.participants)) =>
    LET n == Len(call.participants)
    IN  /\ ret.ok
        /\ Len(ret.splits) = n
        /\ \A i \in 1..n : ret.splits[i].userId = call.participants[i].userId
        /\ \A i \in 1..(n - 1) :
             IsRounded(ret.splits[i].amount, call.totalAmount,
                       call.participants[i].percent)
        /\ ret.splits[n].amount =
             call.totalAmount - AmountsTotal(SubSeq(ret.splits, 1, n - 1))
        /\ AmountsTotal(ret.splits) = call.totalAmount

\* C5's case: rounding gives the first two participants more than their
\* exact share and the last participant absorbs the difference.
C5_Witness ==
  /\ Returned("PERCENT")
  /\ ret.ok
  /\ Len(call.participants) = 3
  /\ call.participants[1].percent = 33
  /\ call.participants[3].percent = 34
  /\ call.totalAmount = 2
  /\ ret.splits[1].amount = 1
  /\ ret.splits[3].amount = 0

C7_AmountsNonNegative ==
  (pc = "returned" /\ ret.ok) =>
    \A i \in 1..Len(ret.splits) : ret.splits[i].amount >= 0

\* The balance of `userId` in a group's Map, 0 when it has no entry.
Net(m, userId) == IF mapHas(m, userId) THEN mapGet(m, userId) ELSE 0

\* The Map of a group, empty when the store holds none.
LedgerOf(groupId) ==
  IF groupId \in DOMAIN balances THEN balances[groupId] ELSE <<>>

\* C1: in every state reachable by create-expense calls (splitExpense
\* followed by applyExpense, with a positive integer total) and
\* applySettlement calls, the net balances of each group sum to exactly 0.
C1_LedgerConservation ==
  \A groupId \in DOMAIN balances : AmountsTotal(balances[groupId]) = 0

\* C1's case: two expenses and a settlement have been applied and left three
\* users of one group with balances that are not all zero.
C1_Witness ==
  /\ applied.expenses = 2
  /\ applied.settlements = 1
  /\ \E groupId \in DOMAIN balances :
       /\ Len(balances[groupId]) = 3
       /\ \E i \in 1..3 : balances[groupId][i].amount > 1

\* What the transactions make `userId` pay, and receive.
RECURSIVE PaidBy(_, _)
PaidBy(transactions, userId) ==
  IF transactions = <<>> THEN 0
  ELSE (IF transactions[1].from = userId THEN transactions[1].amount ELSE 0)
         + PaidBy(Tail(transactions), userId)

RECURSIVE ReceivedBy(_, _)
ReceivedBy(transactions, userId) ==
  IF transactions = <<>> THEN 0
  ELSE (IF transactions[1].to = userId THEN transactions[1].amount ELSE 0)
         + ReceivedBy(Tail(transactions), userId)

\* simplifyBalances has returned for a ledger whose balances sum to zero.
SimplifiedZeroSum ==
  /\ pc = "returned"
  /\ call.op = "simplifyBalances"
  /\ AmountsTotal(LedgerOf(call.groupId)) = 0

\* C2 as the spec words it: for a zero-sum ledger, debiting `from` and
\* crediting `to` by the amount of every returned transaction leaves every
\* user with a balance of 0.
C2_DebitFromCreditTo ==
  SimplifiedZeroSum =>
    \A u \in SimplifyUserIds :
      Net(LedgerOf(call.groupId), u) - PaidBy(ret, u) + ReceivedBy(ret, u) = 0

\* C2, amended: for a zero-sum ledger, crediting `from` and debiting `to` by
\* the amount of every returned transaction (what applySettlement does)
\* leaves every user with a balance of 0.
C2_CreditFromDebitTo ==
  SimplifiedZeroSum =>
    \A u \in SimplifyUserIds :
      Net(LedgerOf(call.groupId), u) + PaidBy(ret, u) - ReceivedBy(ret, u) = 0

\* C2's case: a zero-sum ledger of two creditors and two debtors that takes
\* three transactions.
C2_Witness ==
  /\ SimplifiedZeroSum
  /\ Len(ret) = 3
  /\ Cardinality({i \in 1..Len(LedgerOf(call.groupId)) :
                    LedgerOf(call.groupId)[i].amount > 0}) = 2

\* The number of users of a Map with a nonzero balance.
NonZero(m) == Cardinality({i \in 1..Len(m) : m[i].amount # 0})

\* C3: for a zero-sum ledger with k >= 1 users of nonzero balance
\* simplifyBalances returns at most k-1 transactions; with k = 0 it returns
\* the empty list.
C3_CountBound ==
  SimplifiedZeroSum =>
    LET k == NonZero(LedgerOf(call.groupId))
    IN  IF k = 0 THEN ret = <<>> ELSE Len(ret) <= k - 1

\* C3's case: four users of nonzero balance, one of zero balance aside, and
\* the bound of three transactions met.
C3_Witness ==
  /\ SimplifiedZeroSum
  /\ NonZero(LedgerOf(call.groupId)) = 3
  /\ Len(LedgerOf(call.groupId)) = 4
  /\ Len(ret) = 2
  /\ ret[1].amount > 1

\* What the stored expense `e` adds to the balance of `userId`.
ExpenseEffect(e, userId) ==
  (IF e.paidBy = userId THEN e.totalAmount ELSE 0)
    - AmountsTotal(SelectSeq(e.splits, LAMBDA sp : sp.userId = userId))

\* What the stored expenses of a group add up to for `userId`.
RECURSIVE ExpensesEffect(_, _, _)
ExpensesEffect(exps, groupId, userId) ==
  IF exps = <<>> THEN 0
  ELSE (IF exps[1].groupId = groupId THEN ExpenseEffect(exps[1], userId) ELSE 0)
         + ExpensesEffect(Tail(exps), groupId, userId)

\* The ledger holds the splits of the stored expenses and nothing else.
C8_LedgerMatchesExpenses ==
  \A groupId \in Range(GroupIds), userId \in Range(UserIds) :
    Net(LedgerOf(groupId), userId) = ExpensesEffect(expenses, groupId, userId)

\* A create-expense request is answered 201 and adds one record, that of
\* the request, or is rejected and leaves the store as it was.
C8_Step ==
  (pc = "serve" /\ pc' = "respond" /\ req'.op = "postExpense") =>
    IF res'.status = 201
      THEN /\ Len(expenses') = Len(expenses) + 1
           /\ SubSeq(expenses', 1, Len(expenses)) = expenses
           /\ expenses'[Len(expenses')].groupId = req'.groupId
           /\ expenses'[Len(expenses')].paidBy = req'.body.paidBy
           /\ expenses'[Len(expenses')].totalAmount = req'.body.totalAmount
           /\ expenses'[Len(expenses')].splits = res'.body
      ELSE UNCHANGED <<users, groups, expenses, balances>>

\* C8: a rejected create-expense request leaves the stored expenses and
\* every group's balances exactly as they were, and an expense record is
\* stored if and only if its splits were applied to the ledger.
C8_FailFast == []C8_LedgerMatchesExpenses /\ [][C8_Step]_vars

\* C8's case: with one expense stored and applied, a request splitExpense
\* refuses has been answered.
C8_Witness ==
  /\ pc = "respond"
  /\ req.op = "postExpense"
  /\ res.status = 400
  /\ res.error = "Sum of shares (2) must equal total amount (1)"
  /\ Len(expenses) = 1
  /\ \E userId \in Range(UserIds) : Net(LedgerOf(req.groupId), userId) # 0

\* A PERCENT participant list whose percentages do not sum to 100 or hold a
\* value outside [0, 100].
BadPercents(shares) ==
  \/ PercentsTotal(shares) # 100
  \/ \E i \in 1..Len(shares) : shares[i].percent < 0 \/ shares[i].percent > 100

\* The status of a create-expense request that is refused: 404 for an
\* unknown group, 400 otherwise.
RefusalStatus(groupId) == IF groupId \in DOMAIN groups THEN 400 ELSE 404

\* C9: percentageSplit rejects, with statusCode 400, every input whose
\* percentages do not sum to 100 or that holds a percent outside [0, 100],
\* and a create-expense request carrying such percentages is refused with
\* status 400 (404 when its group does not exist).
C9_PercentValidation ==
  /\ (Returned("PERCENT") /\ BadPercents(call.participants)) =>
       (~ret.ok /\ ret.splits = <<>> /\ ret.statusCode = 400)
  /\ (/\ pc = "respond"
      /\ req.op = "postExpense"
      /\ req.body.splitType = "PERCENT"
      /\ BadPercents(req.body.participants)) =>
       res.status = RefusalStatus(req.groupId)

\* C9's case: the request of percentages 50 and 30 has reached
\* percentageSplit and been answered 400.
C9_Witness ==
  /\ pc = "respond"
  /\ req.op = "postExpense"
  /\ req.body.splitType = "PERCENT"
  /\ Len(req.body.participants) = 2
  /\ req.body.participants[1].percent = 50
  /\ req.body.participants[2].percent = 30
  /\ res.status = 400
  /\ res.error = "Sum of percentages (80) must equal 100"

\* A direct call with an unknown split type fails with the unknown-split-type
\* error and no splits; a create-expense request with one is answered 400
\* (404 when its group does not exist), never 500.
C10_Rejected ==
  /\ (pc = "returned" /\ call.splitType \notin SplitTypes) =>
       /\ ~ret.ok
       /\ ret.splits = <<>>
       /\ ret.message = "Unknown split type: " \o call.splitType
  /\ (/\ pc = "respond"
      /\ req.op = "postExpense"
      /\ req.body.splitType \notin SplitTypes) =>
       res.status = RefusalStatus(req.groupId)

\* A create-expense request with an unknown split type changes no state.
C10_Step ==
  (/\ pc = "serve"
   /\ pc' = "respond"
   /\ req'.op = "postExpense"
   /\ req'.body.splitType \notin SplitTypes) =>
    UNCHANGED <<users, groups, expenses, balances>>

\* C10: splitExpense called with a split type other than EQUAL, EXACT or
\* PERCENT fails with the unknown-split-type error and produces no splits,
\* and a create-expense request carrying such a split type is answered with
\* a client error (400) and changes no state.
C10_UnknownSplitType == []C10_Rejected /\ [][C10_Step]_vars

\* C10's case: a request with split type INVALID from a member of the group,
\* for members of the group, has been refused for its split type.
C10_Witness ==
  /\ pc = "respond"
  /\ req.op = "postExpense"
  /\ req.body.splitType = "INVALID"
  /\ Len(req.body.participants) = 2
  /\ res.status = 400
  /\ res.error = "Split type must be EQUAL, EXACT, or PERCENT"
  /\ Len(expenses) = 1

\* A request of the given kind is being answered.
Answering(op) == pc = "serve" /\ pc' = "respond" /\ req'.op = op

\* C11: a balance query (getNetBalances or simplifyBalances behind the raw
\* and simplified balance requests) leaves the entire store unchanged, the
\* set of groups store.balances holds a Map for included, and the same query
\* asked again returns the same result.
C11_QueriesReadOnly ==
  [][/\ Answering("getRawBalances") =>
          /\ UNCHANGED store
          /\ res'.status = 200 =>
               res'.body = getNetBalances(balances', req'.groupId).result
     /\ Answering("getSimplifiedBalances") =>
          /\ UNCHANGED store
          /\ res'.status = 200 =>
               res'.body = simplifyBalances(balances', req'.groupId).result]_vars

\* ------------------------------------------------ the README's trip to Goa

\* The users and the group of the README's scenario once its steps 1 to 3
\* have created them, and the bodies of the three requests of its step 4.
GoaUserIds == <<"Alice", "Bob", "Charlie">>
GoaGroupId == "goa"

GoaBodies ==
  <<[description |-> "Hotel booking", category |-> "trip", totalAmount |-> 6000,
     paidBy |-> "Alice", splitType |-> "EQUAL",
     participants |-> <<"Alice", "Bob", "Charlie">>],
    [description |-> "Dinner at beach restaurant", category |-> "food",
     totalAmount |-> 3000, paidBy |-> "Bob", splitType |-> "EXACT",
     participants |-> <<[userId |-> "Alice", amount |-> 1000],
                        [userId |-> "Bob", amount |-> 1200],
                        [userId |-> "Charlie", amount |-> 800]>>],
    [description |-> "Cab to airport", category |-> "trip", totalAmount |-> 2000,
     paidBy |-> "Charlie", splitType |-> "PERCENT",
     participants |-> <<[userId |-> "Alice", percent |-> 40],
                        [userId |-> "Bob", percent |-> 30],
                        [userId |-> "Charlie", percent |-> 30]>>]>>

\* Most expenses the group is sent.
MaxGoaExpenses == 3

GoaInit ==
  /\ users = Range(GoaUserIds)
  /\ groups = MapPut(EmptyMap, GoaGroupId, [members |-> Range(GoaUserIds)])
  /\ expenses = <<>>
  /\ balances = EmptyMap
  /\ req = NoRequest
  /\ res = NoResponse
  /\ applied = NoApplied
  /\ call = NoCall
  /\ ret = NoRet
  /\ pc = "serve"

\* POST /groups/:groupId/expenses with one of the three bodies, in any order
\* and any number of times.
GoaPostExpense ==
  /\ pc = "serve"
  /\ Len(expenses) < MaxGoaExpenses
  /\ \E i \in 1..Len(GoaBodies) :
       LET out == postExpense(GoaGroupId, GoaBodies[i])
       IN  /\ req' = Request("postExpense", GoaGroupId, GoaBodies[i])
           /\ expenses' = out.expenses
           /\ balances' = out.balances
           /\ res' = Response(out)
  /\ pc' = "respond"
  /\ UNCHANGED <<users, groups, applied, call, ret>>

\* GET /groups/:groupId/balances/raw
GoaGetRawBalances ==
  /\ pc = "serve"
  /\ LET out == getRawBalances(GoaGroupId)
     IN  /\ req' = Request("getRawBalances", GoaGroupId, NoBody)
         /\ balances' = out.balances
         /\ res' = Response(out)
  /\ pc' = "respond"
  /\ UNCHANGED <<users, groups, expenses, applied, call, ret>>

\* GET /groups/:groupId/balances/simplified
GoaGetSimplifiedBalances ==
  /\ pc = "serve"
  /\ LET out == getSimplifiedBalances(GoaGroupId)
     IN  /\ req' = Request("getSimplifiedBalances", GoaGroupId, NoBody)
         /\ balances' = out.balances
         /\ res' = Response(out)
  /\ pc' = "respond"
  /\ UNCHANGED <<users, groups, expenses, applied, call, ret>>

GoaNext ==
  \/ GoaPostExpense
  \/ GoaGetRawBalances
  \/ GoaGetSimplifiedBalances
  \/ Respond

GoaSpec == GoaInit /\ [][GoaNext]_vars

\* The stored expenses are the first n of the README's, in its order.
GoaStored(n) ==
  /\ Len(expenses) = n
  /\ \A i \in 1..n :
       /\ expenses[i].totalAmount = GoaBodies[i].totalAmount
       /\ expenses[i].paidBy = GoaBodies[i].paidBy
       /\ expenses[i].splitType = GoaBodies[i].splitType

\* With the first n expenses stored the ledger is `raw`, a raw-balances
\* request is answered with it and a simplified-balances request with
\* `simplified`.
GoaAnswers(n, raw, simplified) ==
  GoaStored(n) =>
    /\ LedgerOf(GoaGroupId) = raw
    /\ (pc = "respond" /\ req.op = "getRawBalances") =>
         (res.status = 200 /\ res.body = raw)
    /\ (pc = "respond" /\ req.op = "getSimplifiedBalances") =>
         (res.status = 200 /\ res.body = simplified)

ExpenseOp(groupId, paidBy, totalAmount, splits) ==
  [op |-> "applyExpense", groupId |-> groupId, paidBy |-> paidBy,
   totalAmount |-> totalAmount, splits |-> splits]

SettlementOp(groupId, fromUserId, toUserId, amount) ==
  [op |-> "applySettlement", groupId |-> groupId, fromUserId |-> fromUserId,
   toUserId |-> toUserId, amount |-> amount]

\* store.balances after the call `o`.
applyOp(bal, o) ==
  IF o.op = "applyExpense"
    THEN applyExpense(bal, o.groupId, o.paidBy, o.totalAmount, o.splits)
    ELSE applySettlement(bal, o.groupId, o.fromUserId, o.toUserId, o.amount)

\* store.balances after the calls `ops`, made one after the other.
RECURSIVE applyOps(_, _)
applyOps(bal, ops) ==
  IF ops = <<>> THEN bal ELSE applyOps(applyOp(bal, Head(ops)), Tail(ops))

\* The totals and splits splitExpense hands to applyExpense.
AcceptedSplits ==
  {[totalAmount |-> c.totalAmount,
    splits |-> splitExpense(c.splitType, c.totalAmount, c.participants).splits] :
     c \in {d \in LedgerSplitCalls :
              splitExpense(d.splitType, d.totalAmount, d.participants).ok}}

ExpenseOps(groupId) ==
  {ExpenseOp(groupId, paidBy, s.totalAmount, s.splits) :
     paidBy \in LedgerUserIds, s \in AcceptedSplits}

SettlementOps(groupId) ==
  {SettlementOp(groupId, fromUserId, toUserId, amount) :
     fromUserId \in LedgerUserIds, toUserId \in LedgerUserIds,
     amount \in 1..MaxSettle}

\* The README's hotel and dinner expenses as applyExpense receives them.
GoaOp(i) ==
  ExpenseOp(GoaGroupId, GoaBodies[i].paidBy, GoaBodies[i].totalAmount,
            splitExpense(GoaBodies[i].splitType, GoaBodies[i].totalAmount,
                         GoaBodies[i].participants).splits)

\* The users a ledger holds before the calls, and their largest absolute
\* balance.
StartUserIds == {"u1", "u2"}
MaxStartBalance == 1

\* The ledger before the calls: the first group has no Map or a Map of up to
\* two users in either insertion order, the second group has no Map or a Map
\* of one user; then one call of applyExpense on either group, or two calls
\* (each applyExpense or applySettlement) on the first group.  Or the fresh
\* ledger and the README's hotel expense, its dinner expense, or both.
ApplyInit ==
  /\ users = {}
  /\ groups = EmptyMap
  /\ expenses = <<>>
  /\ \/ /\ \E k \in 0..Cardinality(StartUserIds) :
             \E us \in [1..k -> StartUserIds] :
               /\ \A i, j \in 1..k : i # j => us[i] # us[j]
               /\ \E bs \in [1..k -> (-MaxStartBalance)..MaxStartBalance] :
                    \E first \in {<<>>, <<Ledger(us, bs)>>},
                       second \in {<<>>, <<Ledger(<<"u3">>, <<1>>)>>} :
                      /\ k > 0 => first # <<>>
                      /\ balances =
                           [g \in (IF first # <<>> THEN {"g1"} ELSE {})
                                    \cup (IF second # <<>> THEN {"g2"} ELSE {}) |->
                              IF g = "g1" THEN first[1] ELSE second[1]]
        /\ \/ \E g \in LedgerGroupIds : \E o \in ExpenseOps(g) : call = <<o>>
           \/ \E a \in ExpenseOps("g1") \cup SettlementOps("g1") :
                \E b \in ExpenseOps("g1") \cup SettlementOps("g1") :
                  call = <<a, b>>
     \/ /\ balances = EmptyMap
        /\ call \in {<<GoaOp(1)>>, <<GoaOp(2)>>, <<GoaOp(1), GoaOp(2)>>}
  /\ req = NoRequest
  /\ res = NoResponse
  /\ applied = NoApplied
  /\ ret = NoRet
  /\ pc = "call"

\* The calls are made, one after the other.
ApplyCalls ==
  /\ pc = "call"
  /\ balances' = applyOps(balances, call)
  /\ pc' = "returned"
  /\ UNCHANGED <<users, groups, expenses, req, res, applied, call, ret>>

ApplyNext == ApplyCalls

ApplySpec == ApplyInit /\ [][ApplyNext]_vars

\* The Map of a group in `bal`, empty when `bal` holds none.
LedgerIn(bal, groupId) == IF groupId \in DOMAIN bal THEN bal[groupId] ELSE <<>>

\* The users of the calls.
CallUserIds == LedgerUserIds \cup Range(GoaUserIds)

\* What the splits make `userId` owe.
Owed(splits, userId) ==
  AmountsTotal(SelectSeq(splits, LAMBDA sp : sp.userId = userId))

\* One call of applyExpense is made.
ExpenseApplied ==
  pc = "call" /\ pc' = "returned" /\ Len(call) = 1 /\ call[1].op = "applyExpense"

\* The effect of that call on the payer and the participants; the users it
\* does not name and the other groups keep what they had.
C13_Effect ==
  ExpenseApplied =>
    LET e == call[1]
        before == LedgerIn(balances, e.groupId)
        after == LedgerIn(balances', e.groupId)
        named == {e.paidBy} \cup {e.splits[i].userId : i \in 1..Len(e.splits)}
    IN  /\ \A u \in CallUserIds :
             Net(after, u) = Net(before, u)
                               + (IF u = e.paidBy THEN e.totalAmount ELSE 0)
                               - Owed(e.splits, u)
        /\ \A u \in CallUserIds \ named :
             /\ mapHas(after, u) = mapHas(before, u)
             /\ Net(after, u) = Net(before, u)
        /\ \A g \in (DOMAIN balances \cup DOMAIN balances') \ {e.groupId} :
             /\ g \in DOMAIN balances
             /\ g \in DOMAIN balances'
             /\ balances'[g] = balances[g]

\* The README's hotel expense on a fresh ledger, and what its dinner expense
\* does to Bob.
C13_Instances ==
  /\ (ExpenseApplied /\ call[1] = GoaOp(1) /\ balances = EmptyMap) =>
       balances'[GoaGroupId] =
         <<[userId |-> "Alice", amount |-> 4000], [userId |-> "Bob", amount |-> -2000],
           [userId |-> "Charlie", amount |-> -2000]>>
  /\ (ExpenseApplied /\ call[1] = GoaOp(2)) =>
       Net(LedgerIn(balances', GoaGroupId), "Bob")
         = Net(LedgerIn(balances, GoaGroupId), "Bob") + 1800

\* C13: applyExpense(group, payer, total, splits) changes the payer's balance
\* by +total minus the payer's own split amounts and every other
\* participant's by minus their split amounts; no other user's balance in
\* the group and no balance of another group changes.  6000 paid by Alice
\* EQUAL among Alice, Bob and Charlie on a fresh ledger gives +4000, -2000,
\* -2000; 3000 paid by Bob EXACT 1000/1200/800 changes Bob's balance by +1800.
C13_ApplyExpenseFrame == [][C13_Effect /\ C13_Instances]_vars

\* C13's case: an expense paid by a user new to a ledger that holds two
\* others has been applied, the other group's ledger beside it.
C13_Witness ==
  /\ pc = "returned"
  /\ Len(call) = 1
  /\ call[1].op = "applyExpense"
  /\ call[1].groupId = "g1"
  /\ call[1].paidBy = "u3"
  /\ Len(call[1].splits) = 2
  /\ DOMAIN balances = {"g1", "g2"}
  /\ Len(balances["g1"]) = 3
  /\ balances["g1"][3].amount = 2

\* The store holds nothing.
StoreEmpty ==
  /\ users = {}
  /\ groups = EmptyMap
  /\ expenses = <<>>
  /\ balances = EmptyMap

\* The reset request is answered 200 and leaves the store empty; in the
\* emptied store the list of users is empty and a balance query is answered
\* 404 and creates no ledger.
C14_Step ==
  /\ Answering("deleteReset") =>
       /\ res'.status = 200
       /\ users' = {}
       /\ groups' = EmptyMap
       /\ expenses' = <<>>
       /\ balances' = EmptyMap
  /\ (StoreEmpty /\ Answering("getUsers")) =>
       (res'.status = 200 /\ res'.body = <<>> /\ UNCHANGED store)
  /\ (StoreEmpty /\ (Answering("getRawBalances") \/ Answering("getSimplifiedBalances"))) =>
       (res'.status = 404 /\ UNCHANGED store)

\* C14: after the reset operation, from any reachable state, users, groups,
\* expenses and all groups' balances are empty (the list of users is empty
\* and balance queries for a group that existed are answered 404 without
\* recreating ledger state); reset succeeds from every state, an empty one
\* included.
C14_Reset == [](pc = "serve" => ENABLED DeleteReset) /\ [][C14_Step]_vars

\* C14's case: the reset request has been answered and the store is empty.
C14_Witness ==
  /\ pc = "respond"
  /\ req.op = "deleteReset"
  /\ res.status = 200
  /\ StoreEmpty

\* C15: with requests handled one at a time in any interleaving of whole
\* requests, a balance query never returns a ledger in which an expense's
\* payer has been credited but not all of its participants debited, or the
\* reverse: the raw balances returned are those of the stored expenses
\* applied in full and sum to 0, and the simplified transactions returned
\* settle exactly those balances.
C15_AtomicVisibility ==
  /\ (pc = "respond" /\ req.op = "getRawBalances" /\ res.status = 200) =>
       /\ AmountsTotal(res.body) = 0
       /\ \A u \in Range(UserIds) :
            Net(res.body, u) = ExpensesEffect(expenses, req.groupId, u)
  /\ (pc = "respond" /\ req.op = "getSimplifiedBalances" /\ res.status = 200) =>
       \A u \in Range(UserIds) :
         ExpensesEffect(expenses, req.groupId, u)
           + PaidBy(res.body, u) - ReceivedBy(res.body, u) = 0

\* C15's case: two expenses are stored and the raw balances returned hold a
\* creditor and a debtor.
C15_Witness ==
  /\ pc = "respond"
  /\ req.op = "getRawBalances"
  /\ res.status = 200
  /\ Len(expenses) = 2
  /\ Len(res.body) = 2
  /\ res.body[1].amount # 0

\* simplifyBalances has returned.
Simplified == pc = "returned" /\ call.op = "simplifyBalances"

\* C16: for every ledger, every transaction simplifyBalances returns has an
\* amount > 0, a `from` whose balance is negative and a `to` whose balance is
\* positive (so from # to); no user whose balance is exactly 0 appears in a
\* transaction.
C16_TransactionShape ==
  Simplified =>
    \A i \in 1..Len(ret) :
      /\ ret[i].amount > 0
      /\ mapHas(LedgerOf(call.groupId), ret[i].from)
      /\ mapHas(LedgerOf(call.groupId), ret[i].to)
      /\ Net(LedgerOf(call.groupId), ret[i].from) < 0
      /\ Net(LedgerOf(call.groupId), ret[i].to) > 0
      /\ ret[i].from # ret[i].to

\* C16's case: a ledger that does not sum to zero, a user of balance 0 in
\* it, has been simplified into two transactions.
C16_Witness ==
  /\ Simplified
  /\ Len(ret) = 2
  /\ AmountsTotal(LedgerOf(call.groupId)) # 0
  /\ \E i \in 1..Len(LedgerOf(call.groupId)) : LedgerOf(call.groupId)[i].amount = 0

\* The two ledgers hold the same groups and, in each, the same users with the
\* same balances, whatever the insertion order of their Maps.
SameMapping(b1, b2) ==
  /\ DOMAIN b1 = DOMAIN b2
  /\ \A g \in DOMAIN b1, u \in CallUserIds :
       /\ mapHas(b1[g], u) = mapHas(b2[g], u)
       /\ Net(b1[g], u) = Net(b2[g], u)

\* C17: two operations (applyExpense or applySettlement) on the same group,
\* applied in either order from the same starting state, yield the same
\* user -> balance mapping; any reordering of a sequence of operations being
\* a chain of such exchanges, the mapping depends only on the multiset of
\* operations applied.
C17_OrderIndependence ==
  [][(pc = "call" /\ pc' = "returned" /\ Len(call) = 2) =>
       SameMapping(balances', applyOps(balances, <<call[2], call[1]>>))]_vars

\* C17's case: an expense and then a settlement have been applied to a
\* group, between them naming three users, one of whom the ledger held.
C17_Witness ==
  /\ pc = "returned"
  /\ Len(call) = 2
  /\ call[1].op = "applyExpense"
  /\ call[2].op = "applySettlement"
  /\ call[1].paidBy = "u3"
  /\ call[2].fromUserId = "u2"
  /\ call[2].toUserId = "u3"
  /\ Len(balances["g1"]) = 3
  /\ balances["g1"][1].userId = "u1"
  /\ balances["g1"][2].userId = "u3"

\* The reference algorithm.  Its creditors and debtors: the users of positive
\* and of negative balance with the absolute value of the balance, in the
\* ledger's insertion order.
RefParties(m, sign) ==
  LET picked == SelectSeq(m, LAMBDA e : e.amount * sign > 0)
  IN  [i \in 1..Len(picked) |->
         [userId |-> picked[i].userId, amount |-> picked[i].amount * sign]]

\* The place of element i in the descending stable order: after every larger
\* element and after every equal element that precedes it in the list.
RefRank(list, i) ==
  1 + Cardinality({j \in 1..Len(list) :
                     \/ list[j].amount > list[i].amount
                     \/ list[j].amount = list[i].amount /\ j < i})

RefSorted(list) ==
  [p \in 1..Len(list) |-> list[CHOOSE i \in 1..Len(list) : RefRank(list, i) = p]]

\* The rest of a list once `amount` of its head is settled: the head leaves
\* when nothing of it remains.
RefRest(list, amount) ==
  IF list[1].amount = amount THEN Tail(list)
  ELSE <<[userId |-> list[1].userId, amount |-> list[1].amount - amount]>>
         \o Tail(list)

\* Largest unresolved debtor -> largest unresolved creditor, the smaller of
\* the two remaining amounts, until either list is empty.
RECURSIVE RefGreedy(_, _)
RefGreedy(cs, ds) ==
  IF cs = <<>> \/ ds = <<>> THEN <<>>
  ELSE LET amount == IF cs[1].amount < ds[1].amount THEN cs[1].amount
                     ELSE ds[1].amount
       IN  <<[from |-> ds[1].userId, to |-> cs[1].userId, amount |-> amount]>>
             \o RefGreedy(RefRest(cs, amount), RefRest(ds, amount))

RefSimplify(m) == RefGreedy(RefSorted(RefParties(m, 1)), RefSorted(RefParties(m, -1)))

\* C18: simplifyBalances returns exactly the transaction list of the
\* reference algorithm, which sorts creditors and debtors by descending
\* amount, ties in the ledger's insertion order, and repeatedly emits
\* (largest unresolved debtor -> largest unresolved creditor, the smaller of
\* the two remaining amounts); {A: +3000, B: -200, C: -2800} yields
\* [(C -> A, 2800), (B -> A, 200)].
C18_GreedyOrder ==
  Simplified =>
    /\ ret = RefSimplify(LedgerOf(call.groupId))
    /\ LedgerOf(call.groupId) = ScenarioLedger =>
         ret = <<[from |-> "C", to |-> "A", amount |-> 2800],
                 [from |-> "B", to |-> "A", amount |-> 200]>>

\* C18's case: two debtors owe the same amount and the one the ledger holds
\* first, although its user identifier is the larger, is matched first.
C18_Witness ==
  /\ Simplified
  /\ Len(ret) = 2
  /\ ret[1].amount = ret[2].amount
  /\ ret[1].to = ret[2].to
  /\ ret[1].from = "u3"
  /\ ret[2].from = "u1"

\* The settlements that pay the transactions, in their order.
Settlements(groupId, transactions) ==
  [i \in 1..Len(transactions) |->
     SettlementOp(groupId, transactions[i].from, transactions[i].to,
                  transactions[i].amount)]

\* C19: for every zero-sum ledger, when the matching loop exits both lists
\* are exhausted and nothing remains of any entry: each debtor's outgoing
\* amounts total |balance| and each creditor's incoming amounts total its
\* balance; hence applySettlement(group, t.from, t.to, t.amount) for every
\* returned t brings every balance of the group to 0, and simplifyBalances
\* then returns the empty list.
C19_TerminalState ==
  SimplifiedZeroSum =>
    LET m == LedgerOf(call.groupId)
        settled == applyOps(balances, Settlements(call.groupId, ret))
    IN  /\ call.creditorIdx = Len(call.creditors)
        /\ call.debtorIdx = Len(call.debtors)
        /\ \A i \in 1..Len(call.creditors) : call.creditors[i].amount = 0
        /\ \A i \in 1..Len(call.debtors) : call.debtors[i].amount = 0
        /\ \A i \in 1..Len(m) :
             /\ PaidBy(ret, m[i].userId) = (IF m[i].amount < 0 THEN -m[i].amount ELSE 0)
             /\ ReceivedBy(ret, m[i].userId) = (IF m[i].amount > 0 THEN m[i].amount ELSE 0)
        /\ Len(settled[call.groupId]) = Len(m)
        /\ \A i \in 1..Len(m) : settled[call.groupId][i].amount = 0
        /\ simplifyBalances(settled, call.groupId).result = <<>>

\* C19's case: one creditor and two debtors, a user of balance 0 beside
\* them, settled by two transactions.
C19_Witness ==
  /\ SimplifiedZeroSum
  /\ Len(LedgerOf(call.groupId)) = 4
  /\ Len(call.creditors) = 1
  /\ Len(call.debtors) = 2
  /\ Len(ret) = 2

\* The loop has run no more often than its lists allow, each iteration having
\* moved a cursor, and stops only with a list exhausted.
C20_Bound ==
  (call.op = "simplifyBalances" /\ pc \in {"loop", "returned"}) =>
    LET n == Len(call.creditors) + Len(call.debtors)
    IN  /\ Len(call.transactions) <= (IF n = 0 THEN 0 ELSE n - 1)
        /\ Len(call.transactions) <= call.creditorIdx + call.debtorIdx
        /\ pc = "returned" =>
             /\ ret = call.transactions
             /\ \/ call.creditorIdx = Len(call.creditors)
                \/ call.debtorIdx = Len(call.debtors)

\* An iteration emits one transaction and advances a cursor; the loop is
\* left as soon as a list is exhausted.
C20_Step ==
  /\ (pc = "loop" /\ pc' = "loop") =>
       /\ Len(call'.transactions) = Len(call.transactions) + 1
       /\ call'.creditorIdx >= call.creditorIdx
       /\ call'.debtorIdx >= call.debtorIdx
       /\ call'.creditorIdx + call'.debtorIdx > call.creditorIdx + call.debtorIdx
       /\ call.creditorIdx < Len(call.creditors)
       /\ call.debtorIdx < Len(call.debtors)
  /\ (pc = "loop" /\ pc' = "returned") =>
       \/ call.creditorIdx = Len(call.creditors)
       \/ call.debtorIdx = Len(call.debtors)

\* C20: for every integer ledger, zero-sum or not, every iteration of the
\* matching loop emits exactly one transaction and advances at least one of
\* the two cursors, so the loop ends after at most (number of creditors +
\* number of debtors - 1) iterations, stopping as soon as either list is
\* exhausted.
C20_Termination == []C20_Bound /\ [][C20_Step]_vars

\* C20's case: a ledger that does not sum to zero, its two creditors and two
\* debtors matched in three iterations with a debtor left unsettled.
C20_Witness ==
  /\ Simplified
  /\ AmountsTotal(LedgerOf(call.groupId)) # 0
  /\ Len(call.creditors) = 2
  /\ Len(call.debtors) = 2
  /\ Len(ret) = 3
  /\ call.debtorIdx = 1

\* ------------------------------------------------------ membership (C21)

\* The users a create-expense body names as participants.
BodyParticipants(body) ==
  {IF body.splitType = "EQUAL" THEN body.participants[i]
                               ELSE body.participants[i].userId
     : i \in 1..Len(body.participants)}

\* The body's payer or one of its participants is not a member of the group.
NamesNonMember(groupId, body) ==
  \E userId \in {body.paidBy} \cup BodyParticipants(body) :
    userId \notin groups[groupId].members

\* Every user with an entry in a group's ledger is a member of that group and
\* a stored user.
C21_Ledger ==
  \A groupId \in DOMAIN balances :
    \A i \in 1..Len(balances[groupId]) :
      /\ groupId \in DOMAIN groups
      /\ balances[groupId][i].userId \in groups[groupId].members
      /\ balances[groupId][i].userId \in users

\* A create-expense request to an existing group that names a non-member is
\* answered 400.
C21_Rejected ==
  (/\ pc = "respond"
   /\ req.op = "postExpense"
   /\ req.groupId \in DOMAIN groups
   /\ NamesNonMember(req.groupId, req.body)) =>
    res.status = 400

\* Such a request changes no state.
C21_Step ==
  (/\ pc = "serve"
   /\ pc' = "respond"
   /\ req'.op = "postExpense"
   /\ req'.groupId \in DOMAIN groups
   /\ NamesNonMember(req'.groupId, req'.body)) =>
    UNCHANGED <<users, groups, expenses, balances>>

\* C21: in every state reachable through the HTTP operations, every user
\* with a balance entry in a group's ledger is a member of that group and an
\* existing user; a create-expense request to a group whose payer or any
\* participant is not a member of it is rejected with status 400 and changes
\* nothing.
C21_Membership == [](C21_Ledger /\ C21_Rejected) /\ [][C21_Step]_vars

\* C21's case: with an expense already in the group's ledger, a request paid
\* by a member that names a stored user outside the group has been refused.
C21_Witness ==
  /\ pc = "respond"
  /\ req.op = "postExpense"
  /\ req.groupId \in DOMAIN groups
  /\ req.body.paidBy \in groups[req.groupId].members
  /\ \E userId \in BodyParticipants(req.body) :
       userId \in users /\ userId \notin groups[req.groupId].members
  /\ res.status = 400
  /\ res.error = "User u2 is not a member of this group"
  /\ Len(expenses) = 1
  /\ req.groupId \in DOMAIN balances
  /\ Len(balances[req.groupId]) > 0

\* ------------------------- create-expense requests with fractional amounts

\* The definitions from here to NumberSpec count an amount in halves: the
\* integer h stands for the JavaScript number h / 2, so that a request can
\* carry 0.5 or 1.5. Percentages stay whole numbers. The ledger's additions
\* and subtractions, the comparisons with 0 and the comparison of a sum with
\* the total are the same on halves and are taken from the definitions above.

\* Largest total amount of such a request, in halves.
MaxHalves == 4

\* `${sum}`: a number in a template literal
numberToString(h) ==
  (IF h < 0 THEN "-" ELSE "") \o ToString(MathAbs(h) \div 2)
    \o (IF MathAbs(h) % 2 = 1 THEN ".5" ELSE "")

\* equalSplit on halves: Math.floor(totalAmount / numParticipants) is a whole
\* number, totalAmount % numParticipants keeps the total's fraction.
equalSplitNumber(totalAmount, participants) ==
  IF Len(participants) = 0
    THEN Throw("Participants list cannot be empty", 400)
    ELSE LET numParticipants == Len(participants)
             baseAmount == 2 * MathFloorDiv(totalAmount, 2 * numParticipants)
             remainder == JsRem(totalAmount, 2 * numParticipants)
         IN  Return([i \in 1..numParticipants |->
                       [userId |-> participants[i],
                        amount |-> baseAmount
                                     + (IF 2 * (i - 1) < remainder THEN 2 ELSE 0)]])

\* exactSplit on halves: shares and total are compared and copied as they are.
exactSplitNumber(totalAmount, shares) ==
  IF Len(shares) = 0
    THEN Throw("Shares list cannot be empty", 400)
  ELSE IF exactSumMismatch(SumAmount(shares), totalAmount)
    THEN Throw("Sum of shares (" \o numberToString(SumAmount(shares))
                 \o ") must equal total amount (" \o numberToString(totalAmount)
                 \o ")", 400)
  ELSE IF \E i \in 1..Len(shares) : exactAmountInvalid(shares[i].amount)
    THEN Throw("Share amounts must be non-negative", 400)
  ELSE Return([i \in 1..Len(shares) |->
                 [userId |-> shares[i].userId, amount |-> shares[i].amount]])

\* Math.round((totalAmount * share.percent) / 100) on a total in halves: a
\* whole number.
percentAmountNumber(totalAmount, percent) ==
  2 * MathRound(totalAmount * percent, 2 * 100)

\* percentMap on halves.
RECURSIVE percentMapNumber(_, _, _, _)
percentMapNumber(totalAmount, shares, i, allocatedAmount) ==
  IF i > Len(shares) THEN <<>>
  ELSE IF i = Len(shares)
    THEN << [userId |-> shares[i].userId,
             amount |-> percentLastAmount(totalAmount, allocatedAmount)] >>
  ELSE LET amount == percentAmountNumber(totalAmount, shares[i].percent)
       IN  << [userId |-> shares[i].userId, amount |-> amount] >>
             \o percentMapNumber(totalAmount, shares, i + 1,
                                 allocatedAmount + amount)

\* percentageSplit on halves.
percentageSplitNumber(totalAmount, shares) ==
  IF Len(shares) = 0
    THEN Throw("Shares list cannot be empty", 400)
  ELSE IF percentSumInvalid(SumPercent(shares))
    THEN Throw("Sum of percentages (" \o ToString(SumPercent(shares))
                 \o ") must equal 100", 400)
  ELSE IF \E i \in 1..Len(shares) : percentOutOfRange(shares[i].percent)
    THEN Throw("Percentages must be between 0 and 100", 400)
  ELSE Return(percentMapNumber(totalAmount, shares, 1, 0))

\* splitExpense on halves.
splitExpenseNumber(splitType, totalAmount, participants) ==
  CASE splitType = "EQUAL" -> equalSplitNumber(totalAmount, participants)
    [] splitType = "EXACT" -> exactSplitNumber(totalAmount, participants)
    [] splitType = "PERCENT" -> percentageSplitNumber(totalAmount, participants)
    [] OTHER -> Throw("Unknown split type: " \o splitType, 0)

\* The tail of the create-expense handler, from the call of splitExpense on.
storeExpenseNumber(groupId, body) ==
  LET r == splitExpenseNumber(body.splitType, body.totalAmount, body.participants)
  IN  IF ~r.ok THEN Reject(errorStatus(r), r.message)
      ELSE Outcome(201, "", r.splits,
                   Append(expenses, expenseRecord(groupId, body, r.splits)),
                   applyExpense(balances, groupId, body.paidBy, body.totalAmount,
                                r.splits))

\* POST /groups/:groupId/expenses with a body whose amounts are in halves.
postExpenseNumber(groupId, body) ==
  IF groupId \notin DOMAIN groups
    THEN Reject(404, "Group not found")
  ELSE IF body.description = ""
    THEN Reject(400, "Description is required")
  ELSE IF body.category = ""
    THEN Reject(400, "Category is required")
  ELSE IF totalAmountInvalid(body.totalAmount)
    THEN Reject(400, "Total amount must be a positive number")
  ELSE IF body.paidBy \notin users
    THEN Reject(400, "Valid paidBy user ID is required")
  ELSE IF body.paidBy \notin groups[groupId].members
    THEN Reject(400, "Payer must be a member of the group")
  ELSE IF splitTypeInvalid(body.splitType)
    THEN Reject(400, "Split type must be EQUAL, EXACT, or PERCENT")
  ELSE IF Len(body.participants) = 0
    THEN Reject(400, "Participants list is required")
  ELSE IF nonMembers(groupId, body) # <<>>
    THEN Reject(400, "User " \o nonMembers(groupId, body)[1]
                       \o " is not a member of this group")
  ELSE storeExpenseNumber(groupId, body)

\* The exact amounts, in halves, and the percentages the requests carry:
\* whole and fractional shares, matching and mismatching sums.
NumberExactVectors ==
  {<<1>>, <<2>>, <<3>>, <<1, 1>>, <<1, 2>>, <<2, 2>>, <<3, -1>>}
NumberPercentVectors == {<<100>>, <<50, 50>>, <<30, 70>>, <<50, 30>>}

\* The participant lists of a request, by split type.
NumberLists(splitType) ==
  CASE splitType = "EXACT" ->
         {[i \in 1..Len(us) |-> [userId |-> us[i], amount |-> v[i]]] :
            <<us, v>> \in {p \in UserLists \X NumberExactVectors :
                             Len(p[1]) = Len(p[2])}}
    [] splitType = "PERCENT" ->
         {[i \in 1..Len(us) |-> [userId |-> us[i], percent |-> v[i]]] :
            <<us, v>> \in {p \in UserLists \X NumberPercentVectors :
                             Len(p[1]) = Len(p[2])}}
    [] OTHER -> UserLists

\* The bodies of the requests: every total from 0 to MaxHalves halves with
\* every payer, split type and participant list.
NumberBodies ==
  UNION {[description : {"Dinner"}, category : {"food"},
          totalAmount : 0..MaxHalves, paidBy : Range(UserIds),
          splitType : {t}, participants : NumberLists(t)] : t \in SplitTypes}

\* The users stored, a group created and everyone added to it; no expense.
NumberInit ==
  /\ users = Range(UserIds)
  /\ groups = MapPut(EmptyMap, GroupIds[1], [members |-> Range(UserIds)])
  /\ expenses = <<>>
  /\ balances = EmptyMap
  /\ req = NoRequest
  /\ res = NoResponse
  /\ applied = NoApplied
  /\ call = NoCall
  /\ ret = NoRet
  /\ pc = "serve"

\* POST /groups/:groupId/expenses
NumberPostExpense ==
  /\ pc = "serve"
  /\ Len(expenses) < MaxExpenses
  /\ \E body \in NumberBodies :
       LET out == postExpenseNumber(GroupIds[1], body)
       IN  /\ req' = Request("postExpense", GroupIds[1], body)
           /\ expenses' = out.expenses
           /\ balances' = out.balances
           /\ res' = Response(out)
  /\ pc' = "respond"
  /\ UNCHANGED <<users, groups, applied, call, ret>>

NumberNext ==
  \/ NumberPostExpense
  \/ Respond

NumberSpec == NumberInit /\ [][NumberNext]_vars

\* ------------------------------------------------- integer amounts (C22)

\* Number.isInteger of an amount counted in halves.
IsInteger(h) == h % 2 = 0

\* The split amounts of every stored expense and of every answer, and every
\* balance of the ledger, are integers.
C22_Integers ==
  /\ \A i \in 1..Len(expenses) :
       \A j \in 1..Len(expenses[i].splits) :
         IsInteger(expenses[i].splits[j].amount)
  /\ (pc = "respond" /\ res.status = 201) =>
       \A j \in 1..Len(res.body) : IsInteger(res.body[j].amount)
  /\ \A groupId \in DOMAIN balances :
       \A i \in 1..Len(balances[groupId]) :
         IsInteger(balances[groupId][i].amount)

\* A create-expense request whose total is not a positive integer is refused
\* with no splits in the answer.
C22_Rejected ==
  (/\ pc = "respond"
   /\ req.op = "postExpense"
   /\ ~(IsInteger(req.body.totalAmount) /\ req.body.totalAmount > 0)) =>
    /\ res.status = 400
    /\ res.body = <<>>

\* Such a request stores no expense and changes no balance.
C22_Step ==
  (/\ pc = "serve"
   /\ pc' = "respond"
   /\ req'.op = "postExpense"
   /\ ~(IsInteger(req'.body.totalAmount) /\ req'.body.totalAmount > 0)) =>
    UNCHANGED <<expenses, balances>>

\* C22: every split amount produced by splitExpense and every balance stored
\* in the ledger is an integer in every state reachable through
\* create-expense requests, and a create-expense request whose total amount
\* is not a positive integer is rejected before any split is computed or any
\* balance changes.
C22_IntegerAmounts == [](C22_Integers /\ C22_Rejected) /\ [][C22_Step]_vars

====
